---------------------------- MODULE Spec2Model ----------------------------
(***************************************************************************)
(* The Edge of lmstudio-proxy: the WebSocket endpoint that Workers         *)
(* connect to (packages/server/src/websocket), the Worker registry         *)
(* (ClientManager), and the HTTP controllers that dispatch a request to a  *)
(* Worker and wait for its frames (packages/server/src/api/controllers).   *)
(*                                                                         *)
(* Node runs every callback to completion, so each callback of the code    *)
(* (a 'message' event, a 'close' event, the ping interval, a timer, an     *)
(* HTTP handler up to its await) is one atomic action.  A promise          *)
(* continuation runs in the microtask queue before any other callback, so  *)
(* it is part of the action that settles the promise.                      *)
(*                                                                         *)
(* The `ws` library is outside the repository.  What the model takes from  *)
(* it: close(code) moves an OPEN socket to CLOSING and later calls are     *)
(* ignored; terminate() moves it to CLOSING; the 'close' event comes in a  *)
(* later callback; send() on a socket that is not OPEN transmits nothing;  *)
(* a socket the Edge closed with close() still delivers the frames the     *)
(* peer had in flight until the peer's close frame arrives.                *)
(***************************************************************************)
EXTENDS Integers, Sequences, FiniteSets, TLC

\* ------------------------------------------------------------------ bounds
MaxConns  == 2      \* WebSocket connections accepted during a run
MaxReqs   == 2      \* HTTP requests accepted during a run
MaxFrames == 3      \* text frames received from Workers during a run
MaxWorkers == 1     \* of the connections, those made on the request path

MaxDials   == 2      \* times a Worker re-dials during a run
MaxSent    == 4      \* frames a Worker transmits during a run
MaxTime    == 60000  \* ms of clock time a run covers
TimeSteps  == {9000, 51000}  \* the steps the clock advances by

Conns  == 1..MaxConns
ReqIds == 1..MaxReqs

\* --------------------------------------------------------- program constants
CLOSE_REPLACED  == 1000     \* existingWs.close(1000, 'Replaced by new connection')
CLOSE_POLICY    == 1008     \* ws.close(1008, 'Authentication ...')
HTTP_OK         == 200
HTTP_ERROR      == 500
HTTP_NO_WORKER  == 503
HTTP_TIMEOUT    == 504
HTTP_UNAUTHORIZED == 401
CACHE_TTL_MS      == 60000  \* models cache
MODELS_TIMEOUT_MS == 10000  \* deadline of a models request

ApiKey    == "secret"                \* config.apiKey
ClientIds == {"w1", "w2"}            \* clientId values a Worker may present

\* ------------------------------------------------------------------ frames
\* An inbound text frame.  parsable = FALSE stands for a text JSON.parse rejects.
\* A field the JSON object does not carry is "" (requestId: 0).
Frame(parsable, type, apiKey, cid, rid, data, error, stream) ==
    [parsable |-> parsable, type |-> type, apiKey |-> apiKey, clientId |-> cid,
     requestId |-> rid, data |-> data, error |-> error, stream |-> stream]

NoFrame == Frame(TRUE, "", "", "", 0, "", "", FALSE)

\* data payloads: two plain strings (what the Worker's stream bridge sends), an
\* OpenAI chunk whose choices[0].finish_reason is set, and one whose choices is [].
DataVals == {"A", "B", "FIN", "NOCHOICE"}

AuthFrames ==
    { Frame(TRUE, "auth", k, id, 0, "", "", FALSE) :
        k \in {ApiKey, "wrong"}, id \in ClientIds \cup {""} }

\* An outbound frame (Edge -> Worker).
Out(type, success, error, token, rid, stream) ==
    [type |-> type, success |-> success, error |-> error, token |-> token,
     requestId |-> rid, stream |-> stream]

\* jwt.sign({clientId}, config.jwtSecret, {expiresIn}): a token bound to clientId
Sign(cid) == "jwt:" \o cid

\* What a handler's closure holds: the controller it belongs to, unary or stream,
\* and the socket findAvailableClient returned (0: none, the request was refused).
NoReq == [kind |-> "none", mode |-> "none", client |-> 0]

\* An HTTP response: status 0 while nothing was sent; body is the JSON payload or
\* the error message; sse is the sequence of chunks written to an event stream.
NoRes == [status |-> 0, body |-> "", etype |-> "", headers |-> "none", sse |-> <<>>,
          ended |-> FALSE]

\* What the route of a request has done: streamRequested is req.body.stream === true
\* as it arrived, streamingEnabled is config.enableStreaming, stream is
\* req.body.stream as the controller gets it.
NoRoute == [streamRequested |-> FALSE, streamingEnabled |-> TRUE, stream |-> FALSE]

\* The Authorization header as its parts between single spaces; <<>>: the header
\* is missing.
NoHeader == <<>>

\* A Worker process (ProxyConnection) connected and registered, before it serves
\* anything.  upstream[r] is the call to LM Studio made for request r: "none",
\* "unary" (makeRequest awaited), "opening" (the stream call awaited), "stream"
\* (the stream delivers data), "draining" (the stream was ended after an error and
\* its 'end' event is due), "over" (no call is open and the request has been
\* answered).  type[r] is the type of the request frame.
\* sent: the frames transmitted to the Edge.  History: cancelled, the requests for
\* which cancel_request arrived while their call was open, and sentAfterCancel,
\* the frames sent for such a request afterwards.
\* The connection: wsOpen (this.ws is OPEN), connecting (a dial is under way),
\* reconnectTimer (the setTimeout of handleReconnection is armed), dials (calls of
\* connect() after the first), onConn (the frames sent on the current connection),
\* closing (the socket was closed by disconnect() and its 'close' event is due).
\* History: shutdown (disconnect() was called), conn (per request, the connection,
\* numbered by dials, on which its frame arrived; -1: none).
NoWorker ==
    [wsOpen |-> TRUE, activeStreams |-> {}, upstream |-> [r \in ReqIds |-> "none"],
     type |-> [r \in ReqIds |-> ""], sent |-> <<>>,
     cancelled |-> {}, sentAfterCancel |-> <<>>,
     connecting |-> FALSE, reconnectTimer |-> FALSE, dials |-> 0,
     onConn |-> <<[type |-> "auth", requestId |-> 0]>>,
     closing |-> FALSE, shutdown |-> FALSE, conn |-> [r \in ReqIds |-> -1]]

VARIABLES
    readyState,        \* per connection: "NONE" (not yet accepted), "OPEN", "CLOSING", "CLOSED"
    isAuthenticated,   \* extWs.isAuthenticated
    isAlive,           \* extWs.isAlive
    clientId,          \* extWs.clientId
    closeCode,         \* code of the close frame the Edge sent (0: none)
    closedBy,          \* "none", "close" (Edge close()), "terminate", "peer"
    clients,           \* ClientManager.clients, in Map insertion order
    wsOut,             \* per connection: frames the Edge transmitted
    nextReq,           \* HTTP requests accepted so far (request r got the r-th uuid)
    req,               \* per request: what its handler's closure holds (kind, mode, client)
    httpClosed,        \* requests whose HTTP connection the client has closed
    pendingRequests,   \* the controllers' pendingRequests maps (the kind names the map)
    timer,             \* requests whose setTimeout is armed
    res,               \* per request: the HTTP response so far
    chunksIn,          \* history: data of the stream_chunk frames received while pending
    endIn,             \* history: requests for which stream_end arrived while pending
    outcomes,          \* history: terminal outcomes delivered, in order
    fired,             \* history: requests whose deadline timer has fired
    firstFrame,        \* history: per connection, the first frame it sent (NoFrame: none yet)
    nFrames,           \* frames received so far
    authorization,     \* per request: the Authorization header it carried
    startedAt,         \* per models request: `now` as its handler read it
    modelsCache,       \* "": null
    modelsCacheExpiry,
    now,               \* Date.now(), in ms
    filledAt,          \* history: when the models cache was last filled (-1: never)
    routed,            \* per request: what its route saw and made of req.body.stream
    errIn,             \* history: <<type, r>> of the error frames that arrived while r was pending
    pings,             \* history: per connection, pings sent since its last pong
    lateIn,            \* history: requests for which a response frame arrived with no entry pending
    worker             \* a Worker process (ProxyConnection) and its upstream calls

vars == <<readyState, isAuthenticated, isAlive, clientId, closeCode, closedBy,
          clients, wsOut, nextReq, req, httpClosed, pendingRequests, timer, res,
          chunksIn, endIn, outcomes, fired, firstFrame, nFrames, authorization,
          startedAt, modelsCache, modelsCacheExpiry, now, filledAt, routed, errIn, pings, lateIn,
          worker>>

Init ==
    /\ readyState      = [c \in Conns |-> "NONE"]
    /\ isAuthenticated = [c \in Conns |-> FALSE]
    /\ isAlive         = [c \in Conns |-> FALSE]
    /\ clientId        = [c \in Conns |-> ""]
    /\ closeCode       = [c \in Conns |-> 0]
    /\ closedBy        = [c \in Conns |-> "none"]
    /\ clients         = <<>>
    /\ wsOut           = [c \in Conns |-> <<>>]
    /\ nextReq         = 0
    /\ req             = [r \in ReqIds |-> NoReq]
    /\ httpClosed      = {}
    /\ pendingRequests = {}
    /\ timer           = {}
    /\ res             = [r \in ReqIds |-> NoRes]
    /\ chunksIn        = [r \in ReqIds |-> <<>>]
    /\ endIn           = {}
    /\ outcomes        = [r \in ReqIds |-> <<>>]
    /\ fired           = {}
    /\ firstFrame      = [c \in Conns |-> NoFrame]
    /\ nFrames         = 0
    /\ authorization   = [r \in ReqIds |-> NoHeader]
    /\ startedAt       = [r \in ReqIds |-> 0]
    /\ modelsCache     = ""
    /\ modelsCacheExpiry = 0
    /\ now             = 0
    /\ filledAt        = -1
    /\ routed          = [r \in ReqIds |-> NoRoute]
    /\ errIn           = {}
    /\ pings           = [c \in Conns |-> 0]
    /\ lateIn          = {}
    /\ worker          = NoWorker


\* The Edge's state as one record, so that a callback is a function from state to
\* state and a callee (addClient inside handleClientAuthentication) composes.
\* threw: an exception is propagating out of the code run so far.
Cur ==
    [readyState |-> readyState, isAuthenticated |-> isAuthenticated,
     isAlive |-> isAlive, clientId |-> clientId, closeCode |-> closeCode,
     closedBy |-> closedBy, clients |-> clients, wsOut |-> wsOut,
     req |-> req, pendingRequests |-> pendingRequests, timer |-> timer, res |-> res,
     chunksIn |-> chunksIn, endIn |-> endIn, outcomes |-> outcomes,
     authorization |-> authorization, startedAt |-> startedAt,
     modelsCache |-> modelsCache, modelsCacheExpiry |-> modelsCacheExpiry,
     now |-> now, filledAt |-> filledAt, routed |-> routed, errIn |-> errIn, pings |-> pings,
     lateIn |-> lateIn, worker |-> worker,
     threw |-> FALSE, ret |-> FALSE]

Commit(s) ==
    /\ readyState'      = s.readyState
    /\ isAuthenticated' = s.isAuthenticated
    /\ isAlive'         = s.isAlive
    /\ clientId'        = s.clientId
    /\ closeCode'       = s.closeCode
    /\ closedBy'        = s.closedBy
    /\ clients'         = s.clients
    /\ wsOut'           = s.wsOut
    /\ req'             = s.req
    /\ pendingRequests' = s.pendingRequests
    /\ timer'           = s.timer
    /\ res'             = s.res
    /\ chunksIn'        = s.chunksIn
    /\ endIn'           = s.endIn
    /\ outcomes'        = s.outcomes
    /\ authorization'   = s.authorization
    /\ startedAt'       = s.startedAt
    /\ modelsCache'     = s.modelsCache
    /\ modelsCacheExpiry' = s.modelsCacheExpiry
    /\ now'             = s.now
    /\ filledAt'        = s.filledAt
    /\ routed'          = s.routed
    /\ errIn'           = s.errIn
    /\ pings'           = s.pings
    /\ lateIn'          = s.lateIn
    /\ worker'          = s.worker

\* ------------------------------------------------------ the ws library
\* ws.send(text): transmitted only by an OPEN socket
WsSend(s, c, frame) ==
    IF s.readyState[c] = "OPEN" THEN [s EXCEPT !.wsOut[c] = Append(@, frame)] ELSE s

\* ws.close(code, reason): starts the closing handshake of an OPEN socket
WsClose(s, c, code) ==
    IF s.readyState[c] = "OPEN"
    THEN [s EXCEPT !.readyState[c] = "CLOSING", !.closeCode[c] = code,
                   !.closedBy[c] = "close"]
    ELSE s

\* ws.terminate(): destroys the socket; the 'close' event follows later
WsTerminate(s, c) ==
    IF s.readyState[c] \in {"OPEN", "CLOSING"}
    THEN [s EXCEPT !.readyState[c] = "CLOSING",
                   !.closedBy[c] = IF s.readyState[c] = "OPEN" THEN "terminate" ELSE @]
    ELSE s

\* --------------------------------------------------- Map<string, ws>
MapHas(m, id)  == \E i \in 1..Len(m) : m[i].id = id
MapGet(m, id)  == m[CHOOSE i \in 1..Len(m) : m[i].id = id].ws
MapSet(m, id, ws) ==
    IF MapHas(m, id)
    THEN [i \in 1..Len(m) |-> IF m[i].id = id THEN [id |-> id, ws |-> ws] ELSE m[i]]
    ELSE Append(m, [id |-> id, ws |-> ws])
MapDelete(m, id) == SelectSeq(m, LAMBDA e : e.id # id)

\* ------------------------------------------------------ ClientManager
\* (mutation) the socket that held the id before is not closed
addClient_OldLeftOpen(s, cid, ws) ==
    [s EXCEPT !.clients = MapSet(@, cid, ws),
              !.clientId[ws] = cid,
              !.isAuthenticated[ws] = TRUE]

\* (mutation) the socket that held the id before loses its authenticated flag
addClient_ReplacedFlagCleared(s, cid, ws) ==
    LET s1 == IF MapHas(s.clients, cid) /\ s.readyState[MapGet(s.clients, cid)] = "OPEN"
              THEN [WsClose(s, MapGet(s.clients, cid), CLOSE_REPLACED)
                       EXCEPT !.isAuthenticated[MapGet(s.clients, cid)] = FALSE]
              ELSE s
    IN  [s1 EXCEPT !.clients = MapSet(@, cid, ws),
                   !.clientId[ws] = cid,
                   !.isAuthenticated[ws] = TRUE]

\* addClient(clientId, ws)
addClient(s, cid, ws) ==
    LET s1 == IF MapHas(s.clients, cid) /\ s.readyState[MapGet(s.clients, cid)] = "OPEN"
              THEN WsClose(s, MapGet(s.clients, cid), CLOSE_REPLACED)
              ELSE s
    IN  [s1 EXCEPT !.clients = MapSet(@, cid, ws),
                   !.clientId[ws] = cid,
                   !.isAuthenticated[ws] = TRUE]

removeClient(s, cid) ==
    IF MapHas(s.clients, cid) THEN [s EXCEPT !.clients = MapDelete(@, cid)] ELSE s

\* (mutation) the first registered socket, whatever its state
findAvailableClient_AnyRegistered(s) ==
    IF s.clients = <<>> THEN 0 ELSE s.clients[1].ws

\* (mutation) the last qualifying Worker of the registry is picked
findAvailableClient_Last(s) ==
    LET ok == { i \in 1..Len(s.clients) :
                  /\ s.readyState[s.clients[i].ws] = "OPEN"
                  /\ s.isAuthenticated[s.clients[i].ws] }
    IN  IF ok = {} THEN 0
        ELSE s.clients[CHOOSE i \in ok : \A j \in ok : i >= j].ws

\* the first registered socket that is OPEN and authenticated; 0: undefined
findAvailableClient(s) ==
    LET ok == { i \in 1..Len(s.clients) :
                  /\ s.readyState[s.clients[i].ws] = "OPEN"
                  /\ s.isAuthenticated[s.clients[i].ws] }
    IN  IF ok = {} THEN 0
        ELSE s.clients[CHOOSE i \in ok : \A j \in ok : i <= j].ws

\* ----------------------------------------------------- authentication.ts
ErrorFrame(msg)    == Out("error", FALSE, msg, "", 0, FALSE)
AuthFailed(msg)    == Out("auth_result", FALSE, msg, "", 0, FALSE)
AuthSucceeded(tok) == Out("auth_result", TRUE, "", tok, 0, FALSE)

\* (mutation) the clientId is looked at before the apiKey
handleClientAuthentication_ClientIdFirst(s, ws, message) ==
    IF message.type # "auth"
    THEN WsClose(WsSend(s, ws, ErrorFrame("Authentication required")), ws, CLOSE_POLICY)
    ELSE IF message.clientId = ""
    THEN WsClose(WsSend(s, ws, AuthFailed("Client ID required")), ws, CLOSE_POLICY)
    ELSE IF message.apiKey # ApiKey
    THEN WsClose(WsSend(s, ws, AuthFailed("Invalid API key")), ws, CLOSE_POLICY)
    ELSE WsSend(addClient(s, message.clientId, ws), ws,
                AuthSucceeded(Sign(message.clientId)))

\* (mutation) success is reported without the Worker being registered
handleClientAuthentication_NotRegistered(s, ws, message) ==
    IF message.type # "auth"
    THEN WsClose(WsSend(s, ws, ErrorFrame("Authentication required")), ws, CLOSE_POLICY)
    ELSE IF message.apiKey # ApiKey
    THEN WsClose(WsSend(s, ws, AuthFailed("Invalid API key")), ws, CLOSE_POLICY)
    ELSE IF message.clientId = ""
    THEN WsClose(WsSend(s, ws, AuthFailed("Client ID required")), ws, CLOSE_POLICY)
    ELSE WsSend([s EXCEPT !.isAuthenticated[ws] = TRUE], ws,
                AuthSucceeded(Sign(message.clientId)))

\* handleClientAuthentication(ws, message)
handleClientAuthentication(s, ws, message) ==
    IF message.type # "auth"
    THEN WsClose(WsSend(s, ws, ErrorFrame("Authentication required")), ws, CLOSE_POLICY)
    ELSE IF message.apiKey # ApiKey
    THEN WsClose(WsSend(s, ws, AuthFailed("Invalid API key")), ws, CLOSE_POLICY)
    ELSE IF message.clientId = ""
    THEN WsClose(WsSend(s, ws, AuthFailed("Client ID required")), ws, CLOSE_POLICY)
    ELSE WsSend(addClient(s, message.clientId, ws), ws,
                AuthSucceeded(Sign(message.clientId)))

\* ------------------------------------------------------- HTTP responses
\* JSON.stringify(chunk) inside the template literal of handleStream
Stringify(d) ==
    CASE d = "A"        -> "\"A\""
      [] d = "B"        -> "\"B\""
      [] d = "FIN"      -> "{\"choices\":[{\"finish_reason\":\"stop\"}]}"
      [] d = "NOCHOICE" -> "{\"choices\":[]}"
      [] d = "ERR:boom" -> "{\"error\":\"boom\"}"
      [] d = "ERR:Unknown error" -> "{\"error\":\"Unknown error\"}"
      [] OTHER          -> "undefined"

SseEvent(text) == "data: " \o text \o "\n\n"
SSE_DONE       == SseEvent("[DONE]")
SSE_TIMEOUT    == SseEvent("[ERROR] Request timeout")

\* chunk.choices is truthy; chunk.choices[0].finish_reason is truthy
HasChoices(d)      == d \in {"FIN", "NOCHOICE"}
HasFinishReason(d) == d = "FIN"
\* reading .choices of undefined is a TypeError
IsUndefined(d)     == d = ""

\* error.message || 'Unknown error'
ErrorMessage(e) == IF e = "obj" THEN "boom" ELSE "Unknown error"

Deliver(s, r, what) == [s EXCEPT !.outcomes[r] = Append(@, what)]

\* res.json(body): status 200 unless set
ResJson(s, r, body) ==
    [s EXCEPT !.res[r].status = HTTP_OK, !.res[r].body = body, !.res[r].ended = TRUE]

\* errorHandler(err, req, res): every error the controllers raise is an ApiError
errorHandler(s, r, statusCode, message) ==
    [s EXCEPT !.res[r].status = statusCode, !.res[r].body = message,
              !.res[r].etype = "api_error", !.res[r].ended = TRUE]

\* ------------------------------------------------------- authMiddleware
\* jwt.verify(token, config.jwtSecret): succeeds for a token the Edge signed whose
\* exp has not passed.  "jwt-expired:..." is a token of the Edge past its exp,
\* "jwt-forged:..." one signed with another secret.
JwtVerify(token) == token \in { Sign(cid) : cid \in ClientIds }

Credentials == {Sign("w1"), "jwt-expired:w1", "jwt-forged:w1", ApiKey, "wrong"}

\* the Authorization headers a client may send
Headers ==
    {NoHeader} \cup { <<"Bearer", x>> : x \in Credentials }
               \cup { <<ApiKey>>, <<"wrong">>, <<"Basic", ApiKey>> }

\* the header as one string
RawHeader(h) == IF Len(h) = 1 THEN h[1] ELSE h[1] \o " " \o h[2]

\* authHeader.startsWith("Bearer ")
StartsWithBearer(h) == Len(h) >= 2 /\ h[1] = "Bearer"

\* authMiddleware(req, res, next); ret: next() was called without an error.
\* In the else branch replace("Bearer ", "") finds nothing to replace in a header
\* of Headers.
authMiddleware(s, r, authHeader) ==
    IF authHeader = NoHeader
    THEN [errorHandler(s, r, HTTP_UNAUTHORIZED, "Authorization header missing")
             EXCEPT !.ret = FALSE]
    ELSE IF StartsWithBearer(authHeader)
    THEN IF JwtVerify(authHeader[2])
         THEN [s EXCEPT !.ret = TRUE]
         ELSE [errorHandler(s, r, HTTP_UNAUTHORIZED, "Invalid or expired token")
                  EXCEPT !.ret = FALSE]
    ELSE IF RawHeader(authHeader) # ApiKey
    THEN [errorHandler(s, r, HTTP_UNAUTHORIZED, "Invalid API key") EXCEPT !.ret = FALSE]
    ELSE [s EXCEPT !.ret = TRUE]

ResWrite(s, r, chunk) == [s EXCEPT !.res[r].sse = Append(@, chunk)]
ResEnd(s, r)          == [s EXCEPT !.res[r].ended = TRUE]

\* (mutation) the entry is deleted and its timeout left armed
ClearAndDelete_TimerLeft(s, r) ==
    [s EXCEPT !.pendingRequests = @ \ {r}]

\* clearTimeout(request.timeout); pendingRequests.delete(requestId)
ClearAndDelete(s, r) ==
    [s EXCEPT !.timer = @ \ {r}, !.pendingRequests = @ \ {r}]

InTable(s, kind, r) == r \in s.pendingRequests /\ s.req[r].kind = kind

\* ---------------------------------------- the promise of a unary handler
\* resolve(value): settles a pending promise; the handler resumes after its await
\* and sends the value.  A settled promise ignores the call.
PromiseResolve(s, r, value) ==
    IF s.res[r].status # 0 THEN s
    ELSE Deliver(ResJson(s, r, value), r, "resolve")

\* reject(new ApiError(status, message)): the handler's catch block runs: it clears
\* and deletes the entry if it is still there and passes the error to errorHandler.
PromiseReject(s, r, statusCode, message) ==
    IF s.res[r].status # 0 THEN s
    ELSE LET s1 == IF r \in s.pendingRequests THEN ClearAndDelete(s, r) ELSE s
         IN  Deliver(errorHandler(s1, r, statusCode, message), r, "fail")

\* ------------------------------------------------ completions controller
RequestFrame(type, r, stream) == Out(type, FALSE, "", "", r, stream)

\* (mutation) the entry is stored without a deadline timer
UnaryHandler_NoTimer(s, r, kind, type) ==
    LET client == findAvailableClient(s)
        s0 == [s EXCEPT !.req[r] = [kind |-> kind, mode |-> "unary", client |-> client]]
    IN  IF client = 0
        THEN Deliver(errorHandler(s0, r, HTTP_NO_WORKER, "No available LM Studio clients"),
                     r, "fail")
        ELSE WsSend([s0 EXCEPT !.pendingRequests = @ \cup {r}],
                    client, RequestFrame(type, r, FALSE))

\* the body of a unary handler up to its await (completionHandler, embeddingsHandler)
UnaryHandler(s, r, kind, type) ==
    LET client == findAvailableClient(s)
        s0 == [s EXCEPT !.req[r] = [kind |-> kind, mode |-> "unary", client |-> client]]
    IN  IF client = 0
        THEN Deliver(errorHandler(s0, r, HTTP_NO_WORKER, "No available LM Studio clients"),
                     r, "fail")
        ELSE WsSend([s0 EXCEPT !.pendingRequests = @ \cup {r}, !.timer = @ \cup {r}],
                    client, RequestFrame(type, r, FALSE))

completionHandler(s, r) == UnaryHandler(s, r, "completion", "completion_request")

completionStreamHandler(s, r) ==
    LET client == findAvailableClient(s)
        s0 == [s EXCEPT !.req[r] = [kind |-> "completion", mode |-> "stream",
                                    client |-> client]]
    IN  IF client = 0
        THEN Deliver(errorHandler(s0, r, HTTP_NO_WORKER, "No available LM Studio clients"),
                     r, "fail")
        ELSE WsSend([s0 EXCEPT !.res[r].headers = "text/event-stream",
                               !.pendingRequests = @ \cup {r}, !.timer = @ \cup {r}],
                    client, RequestFrame("completion_request", r, TRUE))

\* (mutation) the final chunk is not written, only the [DONE] marker
handleStream_FinalChunkLost(s, r, chunk) ==
    IF HasChoices(chunk) /\ HasFinishReason(chunk)
    THEN [Deliver(ResEnd(ResWrite(s, r, SSE_DONE), r), r, "done") EXCEPT !.ret = TRUE]
    ELSE [ResWrite(s, r, SseEvent(Stringify(chunk))) EXCEPT !.ret = FALSE]

\* handleStream(chunk) of a streaming entry; ret: its return value
handleStream(s, r, chunk) ==
    LET s1 == ResWrite(s, r, SseEvent(Stringify(chunk)))
    IN  IF IsUndefined(chunk) THEN [s1 EXCEPT !.threw = TRUE]
        ELSE IF ~HasChoices(chunk) THEN [s1 EXCEPT !.ret = FALSE]
        ELSE IF chunk = "NOCHOICE" THEN [s1 EXCEPT !.threw = TRUE]
        ELSE IF HasFinishReason(chunk)
        THEN [Deliver(ResEnd(ResWrite(s1, r, SSE_DONE), r), r, "done") EXCEPT !.ret = TRUE]
        ELSE [s1 EXCEPT !.ret = FALSE]

\* (mutation) the deadline is reported as an internal error
unaryTimeout_AsInternalError(s, r) ==
    PromiseReject([s EXCEPT !.pendingRequests = @ \ {r}, !.timer = @ \ {r}],
                  r, HTTP_ERROR, "Request timeout")

\* the timeout callback of a unary entry
unaryTimeout(s, r) ==
    PromiseReject([s EXCEPT !.pendingRequests = @ \ {r}, !.timer = @ \ {r}],
                  r, HTTP_TIMEOUT, "Request timeout")

\* (mutation) the timeout callback writes and ends the response and keeps the entry
streamTimeout_EntryKept(s, r) ==
    Deliver(ResEnd(ResWrite([s EXCEPT !.timer = @ \ {r}], r, SSE_TIMEOUT), r), r, "timeout")

\* the timeout callback of a streaming entry
streamTimeout(s, r) ==
    Deliver(ResEnd(ResWrite([s EXCEPT !.pendingRequests = @ \ {r}, !.timer = @ \ {r}],
                            r, SSE_TIMEOUT), r), r, "timeout")

\* (mutation) the entry is dropped without telling the Worker
streamClientClose_NotSent(s, r) ==
    IF r \in s.pendingRequests
    THEN Deliver(ClearAndDelete(s, r), r, "cancel")
    ELSE s

\* (mutation) the close handler does not look the entry up
streamClientClose_NoLookup(s, r) ==
    WsSend(IF r \in s.pendingRequests THEN Deliver(ClearAndDelete(s, r), r, "cancel") ELSE s,
           s.req[r].client, Out("cancel_request", FALSE, "", "", r, FALSE))

\* req.on('close') of a streaming request
streamClientClose(s, r) ==
    IF r \in s.pendingRequests
    THEN WsSend(Deliver(ClearAndDelete(s, r), r, "cancel"), s.req[r].client,
                Out("cancel_request", FALSE, "", "", r, FALSE))
    ELSE s

\* (mutation) a response whose request has no entry is written to the HTTP response
processCompletionResponse_UnknownServed(s, message) ==
    LET r == message.requestId
    IN  IF r \in ReqIds /\ ~InTable(s, "completion", r) /\ s.req[r].kind = "completion"
        THEN ResWrite(s, r, message.data)
        ELSE s

\* A call of a method the entry does not have (resolve/reject of a streaming entry,
\* handleStream of a unary entry) is a TypeError.
processCompletionResponse(s, message) ==
    LET r    == message.requestId
        mode == s.req[r].mode
    IN  IF ~(r \in ReqIds /\ InTable(s, "completion", r)) THEN s
        ELSE IF message.error # ""
        THEN IF message.stream
             THEN IF mode # "stream" THEN [s EXCEPT !.threw = TRUE]
                  ELSE LET s1 == handleStream(s, r, "ERR:" \o ErrorMessage(message.error))
                       IN  Deliver(ClearAndDelete(s1, r), r, "fail")
             ELSE IF mode # "unary" THEN [s EXCEPT !.threw = TRUE]
                  ELSE ClearAndDelete(
                         PromiseReject(s, r, HTTP_ERROR, ErrorMessage(message.error)), r)
        ELSE IF message.stream
        THEN IF mode # "stream" THEN [s EXCEPT !.threw = TRUE]
             ELSE LET s1 == handleStream(s, r, message.data)
                  IN  IF s1.threw THEN s1
                      ELSE IF s1.ret THEN ClearAndDelete(s1, r) ELSE s1
        ELSE IF mode # "unary" THEN [s EXCEPT !.threw = TRUE]
             ELSE ClearAndDelete(PromiseResolve(s, r, message.data), r)

\* ------------------------------------------------- embeddings controller
\* (mutation) the configuration switch is not consulted
completionsRoute_AlwaysStream(s, r, stream, enableStreaming) ==
    LET s1 == [s EXCEPT !.routed[r] = [streamRequested |-> stream,
                                       streamingEnabled |-> enableStreaming,
                                       stream |-> stream]]
    IN  IF stream THEN completionStreamHandler(s1, r) ELSE completionHandler(s1, r)

\* routes/completions.ts, router.post('/')
completionsRoute(s, r, stream, enableStreaming) ==
    LET s1 == [s EXCEPT !.routed[r] = [streamRequested |-> stream,
                                       streamingEnabled |-> enableStreaming,
                                       stream |-> stream]]
    IN  IF stream /\ ~enableStreaming
        THEN completionHandler([s1 EXCEPT !.routed[r].stream = FALSE], r)
        ELSE IF stream THEN completionStreamHandler(s1, r)
        ELSE completionHandler(s1, r)

embeddingsHandler(s, r) == UnaryHandler(s, r, "embeddings", "embeddings_request")

\* (mutation) the entry is looked up in one table shared by the controllers
processEmbeddingsResponse_SharedTable(s, message) ==
    LET r == message.requestId
    IN  IF ~(r \in ReqIds /\ r \in s.pendingRequests) THEN s
        ELSE IF message.error # ""
        THEN ClearAndDelete(PromiseReject(s, r, HTTP_ERROR, ErrorMessage(message.error)), r)
        ELSE ClearAndDelete(PromiseResolve(s, r, message.data), r)

processEmbeddingsResponse(s, message) ==
    LET r == message.requestId
    IN  IF ~(r \in ReqIds /\ InTable(s, "embeddings", r)) THEN s
        ELSE IF message.error # ""
        THEN ClearAndDelete(PromiseReject(s, r, HTTP_ERROR, ErrorMessage(message.error)), r)
        ELSE ClearAndDelete(PromiseResolve(s, r, message.data), r)

\* ------------------------------------------------------ models controller
\* the body listModelsHandler sends when no Worker is available
NoClientsBody == "{object:list,data:[],message:No LM Studio clients connected}"

\* listModelsHandler up to its await.  A request answered from the cache or with
\* the default body registers nothing (client: 0).
listModelsHandler(s, r) ==
    LET client == findAvailableClient(s)
        s0 == [s EXCEPT !.req[r] = [kind |-> "models", mode |-> "unary", client |-> 0],
                        !.startedAt[r] = s.now]
    IN  IF s.modelsCache # "" /\ s.modelsCacheExpiry > s.now
        THEN ResJson(s0, r, s.modelsCache)
        ELSE IF client = 0
        THEN ResJson(s0, r, NoClientsBody)
        ELSE WsSend([s0 EXCEPT !.req[r].client = client,
                               !.pendingRequests = @ \cup {r}, !.timer = @ \cup {r}],
                    client, RequestFrame("models_request", r, FALSE))

\* resolve(data) of a models entry: listModelsHandler resumes after its await,
\* stores the response with the expiry counted from the `now` it read at its
\* start, and sends it
ModelsResolve(s, r, data) ==
    IF s.res[r].status # 0 THEN s
    ELSE Deliver(ResJson([s EXCEPT !.modelsCache = data,
                                   !.modelsCacheExpiry = s.startedAt[r] + CACHE_TTL_MS,
                                   !.filledAt = IF data # "" THEN s.now ELSE @],
                         r, data), r, "resolve")

\* (mutation) the entry and its timer are left in place after the response
processModelsResponse_EntryKept(s, message) ==
    LET r == message.requestId
    IN  IF ~(r \in ReqIds /\ InTable(s, "models", r)) THEN s
        ELSE IF message.error # ""
        THEN PromiseReject(s, r, HTTP_ERROR, ErrorMessage(message.error))
        ELSE ModelsResolve(s, r, message.data)

processModelsResponse(s, message) ==
    LET r == message.requestId
    IN  IF ~(r \in ReqIds /\ InTable(s, "models", r)) THEN s
        ELSE IF message.error # ""
        THEN ClearAndDelete(PromiseReject(s, r, HTTP_ERROR, ErrorMessage(message.error)), r)
        ELSE ClearAndDelete(ModelsResolve(s, r, message.data), r)

\* ---------------------------------------------------- message-handler.ts
\* The chat controller holds no entry here (no chat request is dispatched in this
\* model), so chatRequests.has(id) is false and processChatResponse finds nothing.
processChatResponse(s, message) == s

sendError(s, ws, errorMessage) == WsSend(s, ws, ErrorFrame(errorMessage))

\* (mutation) the pong is sent twice
handlePing_Twice(s, ws) ==
    WsSend(WsSend(s, ws, Out("pong", FALSE, "", "", 0, FALSE)), ws,
           Out("pong", FALSE, "", "", 0, FALSE))

handlePing(s, ws) == WsSend(s, ws, Out("pong", FALSE, "", "", 0, FALSE))

\* logs only
handleErrorResponse(s, message) == s

\* the message the stream handlers pass on: {requestId, data, stream: true} and
\* {requestId, streamEnd: true}
ChunkMessage(message) == Frame(TRUE, "", "", "", message.requestId, message.data, "", TRUE)
EndMessage(message)   == Frame(TRUE, "", "", "", message.requestId, "", "", FALSE)

handleStreamChunk(s, message) ==
    LET r == message.requestId
    IN  IF r = 0 THEN s
        \* the arguments of logger.debug read JSON.stringify(data).length
        ELSE IF IsUndefined(message.data) THEN [s EXCEPT !.threw = TRUE]
        ELSE IF InTable(s, "completion", r)
        THEN processCompletionResponse(
               [s EXCEPT !.chunksIn[r] = Append(@, message.data)], ChunkMessage(message))
        ELSE IF InTable(s, "embeddings", r)
        THEN processEmbeddingsResponse(s, ChunkMessage(message))
        ELSE IF InTable(s, "models", r)
        THEN processModelsResponse(s, ChunkMessage(message))
        \* an id no map holds: a uuid goes to the chat controller, which does not know it
        ELSE processChatResponse(s, ChunkMessage(message))

handleStreamEnd(s, message) ==
    LET r == message.requestId
    IN  IF r = 0 THEN s
        ELSE IF InTable(s, "completion", r)
        THEN processCompletionResponse(
               [s EXCEPT !.endIn = @ \cup {r}], EndMessage(message))
        ELSE IF InTable(s, "embeddings", r)
        THEN processEmbeddingsResponse(s, EndMessage(message))
        ELSE IF InTable(s, "models", r)
        THEN processModelsResponse(s, EndMessage(message))
        ELSE processChatResponse(s, EndMessage(message))

\* Object.values(MessageType)
MessageTypeValues ==
    {"auth", "auth_result", "register", "ping", "pong", "chat_request",
     "completion_request", "embeddings_request", "models_request", "cancel_request",
     "chat_response", "completion_response", "embeddings_response", "models_response",
     "response", "stream_chunk", "stream_end", "error", "error_response"}

\* type.toLowerCase().trim(), on the type strings frames carry here: the ones with
\* an upper-case letter or a blank at an end are listed, any other is its own image
ToLowerTrim(type) ==
    CASE type = " PING "        -> "ping"
      [] type = "Stream_End"    -> "stream_end"
      [] type = "BOGUS"         -> "bogus"
      [] type = "X-Stream_Chunk" -> "x-stream_chunk"
      [] OTHER                  -> type

\* lower.includes(tag), on the same strings
Includes(lower, tag) ==
    \/ lower = tag
    \/ <<lower, tag>> \in {<<"x-stream_chunk", "stream_chunk">>,
                            <<"stream_end_v2", "stream_end">>}

\* handleMessage, the validation of message.type: the type the switch is entered
\* with, or "" when the type is refused as unknown
messageTypeForSwitch(type) ==
    LET lower == ToLowerTrim(type)
        normalized ==
            IF type \in MessageTypeValues \/ lower \in MessageTypeValues THEN type
            ELSE IF Includes(lower, "stream_chunk") THEN "stream_chunk"
            ELSE IF Includes(lower, "stream_end") THEN "stream_end"
            ELSE ""
    IN  IF normalized = "" THEN ""
        ELSE IF ToLowerTrim(normalized) \in MessageTypeValues
        THEN ToLowerTrim(normalized)
        ELSE normalized

handleMessage(s, ws, message) ==
    LET t == messageTypeForSwitch(message.type)
    IN  IF message.type = "" THEN sendError(s, ws, "Invalid message format: missing type")
        ELSE IF t = "" THEN sendError(s, ws, "Unknown message type: " \o message.type)
        ELSE CASE t = "ping"                -> handlePing(s, ws)
               [] t = "chat_response"       -> processChatResponse(s, message)
               [] t = "completion_response" -> processCompletionResponse(s, message)
               [] t = "embeddings_response" -> processEmbeddingsResponse(s, message)
               [] t = "models_response"     -> processModelsResponse(s, message)
               [] t = "error_response"      -> handleErrorResponse(s, message)
               [] t = "stream_chunk"        -> handleStreamChunk(s, message)
               [] t = "stream_end"          -> handleStreamEnd(s, message)
               [] OTHER -> sendError(s, ws, "Unknown message type: " \o message.type)

\* ------------------------------------------------------------- server.ts
\* extWs.on('message'): the try block and its catch
onMessage(s, ws, message) ==
    LET s1 == IF ~message.parsable THEN [s EXCEPT !.threw = TRUE]
              ELSE IF ~s.isAuthenticated[ws]
              THEN handleClientAuthentication(s, ws, message)
              ELSE handleMessage(s, ws, message)
    IN  IF s1.threw THEN WsSend(s1, ws, ErrorFrame("Invalid message format")) ELSE s1

\* extWs.on('close')
onClose(s, ws) ==
    LET s1 == [s EXCEPT !.readyState[ws] = "CLOSED"]
    IN  IF s.clientId[ws] # "" THEN removeClient(s1, s.clientId[ws]) ELSE s1

\* wss.on('connection')
onConnection(s, ws) ==
    [s EXCEPT !.readyState[ws] = "OPEN", !.isAlive[ws] = TRUE,
              !.isAuthenticated[ws] = FALSE, !.clientId[ws] = ""]

\* ws.ping(): a ping frame is transmitted only by an OPEN socket
WsPing(s, ws) ==
    IF s.readyState[ws] = "OPEN" THEN [s EXCEPT !.pings[ws] = @ + 1] ELSE s

RECURSIVE sweepFrom(_, _)

\* extWs.on('pong')
onPong(s, ws) == [s EXCEPT !.isAlive[ws] = TRUE, !.pings[ws] = 0]

\* (mutation) the sweep pings a live socket without clearing its flag
sweepOne_FlagKept(s, ws) ==
    IF s.readyState[ws] \notin {"OPEN", "CLOSING"} THEN s
    ELSE IF ~s.isAlive[ws] THEN WsTerminate(s, ws)
    ELSE WsPing(s, ws)

\* one socket's turn in the ping interval
sweepOne(s, ws) ==
    IF s.readyState[ws] \notin {"OPEN", "CLOSING"} THEN s
    ELSE IF ~s.isAlive[ws] THEN WsTerminate(s, ws)
    ELSE WsPing([s EXCEPT !.isAlive[ws] = FALSE], ws)

\* the sockets in turn, from ws on
sweepFrom(s, ws) == IF ws > MaxConns THEN s ELSE sweepFrom(sweepOne(s, ws), ws + 1)

\* the setInterval callback: wss.clients.forEach
pingInterval(s) == sweepFrom(s, 1)

\* ------------------------------------- proxy-connection.ts (the Worker)
\* A frame the Worker transmits: its type and requestId.
WorkerFrame(type, r) == [type |-> type, requestId |-> r]

\* (mutation) the frame is written whatever the state of the socket
ProxySend_NoCheck(w, type, r) ==
    [w EXCEPT !.sent = Append(@, WorkerFrame(type, r)),
              !.onConn = Append(@, WorkerFrame(type, r)),
              !.sentAfterCancel =
                  IF r \in w.cancelled THEN Append(@, WorkerFrame(type, r)) ELSE @]

\* this.send(message): transmitted when the Worker's socket is OPEN
ProxySend(w, type, r) ==
    IF ~w.wsOpen THEN w
    ELSE [w EXCEPT !.sent = Append(@, WorkerFrame(type, r)),
                   !.onConn = Append(@, WorkerFrame(type, r)),
                   !.sentAfterCancel =
                       IF r \in w.cancelled THEN Append(@, WorkerFrame(type, r)) ELSE @]

\* the switch of handleRequestMessage over message.type
Endpoint(type) ==
    CASE type = "chat_request"       -> "chat/completions"
      [] type = "completion_request" -> "completions"
      [] type = "embeddings_request" -> "embeddings"
      [] type = "models_request"     -> "models"

responseType(type) ==
    CASE type = "chat_request"       -> "chat_response"
      [] type = "completion_request" -> "completion_response"
      [] type = "embeddings_request" -> "embeddings_response"
      [] type = "models_request"     -> "models_response"

\* handleStreamingRequest up to its await: the stream call is made for the two
\* completion endpoints; any other endpoint throws into the catch block
handleStreamingRequest(w, r, endpoint) ==
    IF endpoint \in {"chat/completions", "completions"}
    THEN [w EXCEPT !.upstream[r] = "opening"]
    ELSE ProxySend([w EXCEPT !.upstream[r] = "over"], "error", r)

\* handleRequestMessage up to its await
handleRequestMessage(w, message) ==
    LET r  == message.requestId
        w1 == [w EXCEPT !.type[r] = message.type]
    IN  IF message.stream
        THEN handleStreamingRequest(w1, r, Endpoint(message.type))
        ELSE [w1 EXCEPT !.upstream[r] = "unary"]

\* (mutation) a failed call is answered with the error frame of the stream path
makeRequestSettled_ErrorType(w, r, ok) ==
    LET w1 == [w EXCEPT !.upstream[r] = "over"]
    IN  IF ok THEN ProxySend(w1, responseType(w.type[r]), r)
        ELSE ProxySend(w1, "error", r)

\* handleRequestMessage after makeRequest settled: the response, or the catch block
makeRequestSettled(w, r, ok) ==
    LET w1 == [w EXCEPT !.upstream[r] = "over"]
    IN  IF ok THEN ProxySend(w1, responseType(w.type[r]), r)
        ELSE ProxySend(w1, "error_response", r)

\* handleStreamingRequest after the stream call settled: the stream is registered
\* and its listeners attached, or the catch block
streamSettled(w, r, ok) ==
    IF ok THEN [w EXCEPT !.activeStreams = @ \cup {r}, !.upstream[r] = "stream"]
    ELSE ProxySend([w EXCEPT !.upstream[r] = "over"], "error", r)

\* stream.on('data'): this.send does not throw, so the fallback in the listener's
\* catch block is not taken
streamOnData(w, r) == ProxySend(w, "stream_chunk", r)

\* stream.on('end')
streamOnEnd(w, r) ==
    [ProxySend(w, "stream_end", r) EXCEPT !.activeStreams = @ \ {r},
                                          !.upstream[r] = "over"]

\* stream.on('error')
streamOnError(w, r) == [ProxySend(w, "error", r) EXCEPT !.activeStreams = @ \ {r}]

\* LMStudioClient.streamRequest, response.data.on('error'): the error is emitted
\* on the output stream, whose 'error' listener runs, and the output stream is
\* ended, so that its 'end' event follows
upstreamOnError(w, r) == [streamOnError(w, r) EXCEPT !.upstream[r] = "draining"]

\* ProxyConnection.handleMessage: the if-chain over message.type.  auth_result
\* sets a flag the request path does not read; error is logged; a type with no
\* branch (cancel_request is one) falls through the chain.  The stream_chunk and
\* stream_end branches are for frames the Edge never sends.
proxyHandleMessage(w, message) ==
    IF message.type = "" THEN w
    ELSE IF message.type = "auth_result" THEN w
    ELSE IF message.type \in {"chat_request", "completion_request",
                              "embeddings_request", "models_request"}
    THEN handleRequestMessage(w, message)
    ELSE IF message.type = "error" THEN w
    ELSE w

\* handleReconnection: connect() is called after config.reconnectInterval
handleReconnection(w) == [w EXCEPT !.reconnectTimer = TRUE]

\* handleClose: the ws 'close' event, after a close of an open connection and
\* after a dial that failed
handleClose(w) ==
    handleReconnection([w EXCEPT !.wsOpen = FALSE, !.connecting = FALSE])

\* disconnect(): this.ws is closed and dropped; the 'close' event of a socket that
\* was open or dialling follows, with the listeners connect() attached
disconnect(w) ==
    [w EXCEPT !.shutdown = TRUE, !.wsOpen = FALSE, !.connecting = FALSE,
              !.closing = w.wsOpen \/ w.connecting]

\* connect(), as the timer of handleReconnection calls it: this.ws is a closed
\* socket, terminate() on it does nothing, and a new socket starts to dial
proxyConnect(w) ==
    [w EXCEPT !.reconnectTimer = FALSE, !.connecting = TRUE, !.onConn = <<>>,
              !.dials = @ + 1]

\* sendRegistration
sendRegistration(w) == ProxySend(w, "auth", 0)

\* (mutation) the ping is sent before the registration
handleOpen_PingFirst(w) ==
    sendRegistration(ProxySend([w EXCEPT !.wsOpen = TRUE, !.connecting = FALSE],
                               "ping", 0))

\* handleOpen: the ws 'open' event; the ping interval it sets up fires later
handleOpen(w) == sendRegistration([w EXCEPT !.wsOpen = TRUE, !.connecting = FALSE])

\* the call to LM Studio for request r is open
Serving(w, r) == w.upstream[r] \in {"unary", "opening", "stream"}

\* ------------------------------------------------------------ the frames
\* the frames about request r that a peer may send
ReqFrames(r) ==
    { Frame(TRUE, "completion_response", "", "", r, "A", "", FALSE),
      Frame(TRUE, "completion_response", "", "", r, "", "obj", FALSE),
      Frame(TRUE, "completion_response", "", "", r, "", "obj", TRUE),
      Frame(TRUE, "embeddings_response", "", "", r, "A", "", FALSE),
      Frame(TRUE, "embeddings_response", "", "", r, "", "obj", FALSE),
      Frame(TRUE, "stream_end", "", "", r, "", "", FALSE),
      Frame(TRUE, "error_response", "", "", r, "", "obj", FALSE),
      Frame(TRUE, "error", "", "", r, "", "boom", FALSE) }
    \cup { Frame(TRUE, "stream_chunk", "", "", r, d, "", FALSE) : d \in DataVals }

\* an unparsable text, a ping, a type the Edge does not know
OtherFrames ==
    { Frame(FALSE, "", "", "", 0, "", "", FALSE),
      Frame(TRUE, "ping", "", "", 0, "", "", FALSE),
      Frame(TRUE, "bogus", "", "", 0, "", "", FALSE) }

\* type strings as a Worker may spell them: tags of the protocol, tags in another
\* case or with blanks, strings that contain a stream tag, a string that is no tag
TagTypes ==
    {"ping", " PING ", "pong", "BOGUS", "stream_chunk", "X-Stream_Chunk",
     "Stream_End", "stream_end_v2"}

\* frames with these types, about request r (0: the frame carries no requestId)
TagFrames(r) == { Frame(TRUE, t, "", "", r, "A", "", FALSE) : t \in TagTypes }

\* the registration frame of a Worker configured with the Edge's key
GoodAuth(cid) == Frame(TRUE, "auth", ApiKey, cid, 0, "", "", FALSE)

\* what arrives at the gate: any auth frame, and frames that are no auth frame
GateFrames == AuthFrames \cup OtherFrames

\* payloads of a models response
ModelsData == {"M1", "M2"}

\* the answers of a Worker to unary request r: the response of each kind with a
\* payload, and a models response that reports an error
UnaryFrames(r) ==
    { Frame(TRUE, k, "", "", r, d, "", FALSE) :
        k \in {"completion_response", "embeddings_response", "models_response"},
        d \in ModelsData }
    \cup { Frame(TRUE, "models_response", "", "", r, "", "obj", FALSE) }

\* what a registered Worker sends about the requests the Edge has issued
EdgeFrames == {GoodAuth("w1")} \cup UNION { ReqFrames(r) : r \in 1..nextReq }

\* ------------------------------------------------------------- actions
\* a Worker's connection is accepted (connections are numbered as they arrive)
Connect(c) ==
    /\ readyState[c] = "NONE"
    /\ \A d \in Conns : d < c => readyState[d] # "NONE"
    /\ Commit(onConnection(Cur, c))
    /\ UNCHANGED <<nextReq, httpClosed, fired, firstFrame, nFrames>>

\* what frame f adds to the history of error frames
ErrorAbout(f) ==
    IF /\ f.parsable
       /\ f.type \in {"error", "error_response"}
       /\ f.requestId \in pendingRequests
    THEN {<<f.type, f.requestId>>}
    ELSE {}

\* the frame types that carry a Worker's answer to a request
AnswerTypes ==
    {"completion_response", "embeddings_response", "models_response",
     "stream_chunk", "stream_end"}

\* what frame f, arriving on connection c, adds to the history of answers that
\* found no pending entry
LateAbout(c, f) ==
    IF /\ f.parsable /\ isAuthenticated[c]
       /\ f.type \in AnswerTypes
       /\ f.requestId \in 1..nextReq
       /\ f.requestId \notin pendingRequests
    THEN {f.requestId}
    ELSE {}

\* a text frame arrives: on an OPEN socket, or on one the Edge is closing with
\* close() while the peer has not yet answered the close frame
Message(c, f) ==
    /\ \/ readyState[c] = "OPEN"
       \/ readyState[c] = "CLOSING" /\ closedBy[c] = "close"
    /\ nFrames < MaxFrames
    /\ nFrames' = nFrames + 1
    /\ firstFrame' = IF firstFrame[c] = NoFrame THEN [firstFrame EXCEPT ![c] = f]
                                                ELSE firstFrame
    /\ Commit(onMessage([Cur EXCEPT !.errIn = @ \cup ErrorAbout(f),
                                     !.lateIn = @ \cup LateAbout(c, f)], c, f))
    /\ UNCHANGED <<nextReq, httpClosed, fired>>

Pong(c) ==
    /\ readyState[c] = "OPEN"
    /\ ~isAlive[c]
    /\ Commit(onPong(Cur, c))
    /\ UNCHANGED <<nextReq, httpClosed, fired, firstFrame, nFrames>>

\* the peer closes, or the transport fails: the socket is CLOSING until 'close'
PeerClose(c) ==
    /\ readyState[c] = "OPEN"
    /\ Commit([Cur EXCEPT !.readyState[c] = "CLOSING", !.closedBy[c] = "peer"])
    /\ UNCHANGED <<nextReq, httpClosed, fired, firstFrame, nFrames>>

Close(c) ==
    /\ readyState[c] = "CLOSING"
    /\ Commit(onClose(Cur, c))
    /\ UNCHANGED <<nextReq, httpClosed, fired, firstFrame, nFrames>>

Sweep ==
    /\ \E c \in Conns : readyState[c] \in {"OPEN", "CLOSING"}
    /\ Commit(pingInterval(Cur))
    /\ UNCHANGED <<nextReq, httpClosed, fired, firstFrame, nFrames>>

\* POST /v1/completions and POST /v1/embeddings
HttpRequest(kind, stream) ==
    /\ nextReq < MaxReqs
    /\ nextReq' = nextReq + 1
    /\ LET r == nextReq + 1
       IN  Commit(IF kind = "embeddings" THEN embeddingsHandler(Cur, r)
                  ELSE completionsRoute(Cur, r, stream, TRUE))
    /\ UNCHANGED <<httpClosed, fired, firstFrame, nFrames>>

\* POST /v1/completions under either setting of config.enableStreaming
CompletionsPost(stream, enableStreaming) ==
    /\ nextReq < MaxReqs
    /\ nextReq' = nextReq + 1
    /\ Commit(completionsRoute(Cur, nextReq + 1, stream, enableStreaming))
    /\ UNCHANGED <<httpClosed, fired, firstFrame, nFrames>>

\* the deadline of request r passes: the callback given to setTimeout runs
Timeout(r) ==
    /\ r \in timer
    /\ fired' = fired \cup {r}
    /\ Commit(IF req[r].mode = "stream" THEN streamTimeout(Cur, r) ELSE unaryTimeout(Cur, r))
    /\ UNCHANGED <<nextReq, httpClosed, firstFrame, nFrames>>

\* the HTTP client goes away: req 'close', which only a dispatched streaming
\* request listens to
HttpClose(r) ==
    /\ r \in 1..nextReq
    /\ r \notin httpClosed
    /\ req[r].mode = "stream" /\ req[r].client # 0
    /\ httpClosed' = httpClosed \cup {r}
    /\ Commit(streamClientClose(Cur, r))
    /\ UNCHANGED <<nextReq, fired, firstFrame, nFrames>>

\* GET /v1/models
ModelsRequest ==
    /\ nextReq < MaxReqs
    /\ nextReq' = nextReq + 1
    /\ Commit(listModelsHandler(Cur, nextReq + 1))
    /\ UNCHANGED <<httpClosed, fired, firstFrame, nFrames>>

\* the deadline of models request r comes, the earliest of the armed ones: the
\* clock reaches it and the callback given to setTimeout runs
ModelsTimeout(r) ==
    /\ r \in timer /\ req[r].kind = "models"
    /\ \A q \in timer : req[q].kind = "models" => startedAt[r] <= startedAt[q]
    /\ startedAt[r] + MODELS_TIMEOUT_MS <= MaxTime
    /\ fired' = fired \cup {r}
    /\ Commit(unaryTimeout([Cur EXCEPT !.now = startedAt[r] + MODELS_TIMEOUT_MS], r))
    /\ UNCHANGED <<nextReq, httpClosed, firstFrame, nFrames>>

\* time passes, but not beyond the deadline of an armed models timer
Advance(d) ==
    /\ now + d <= MaxTime
    /\ \A r \in timer : req[r].kind = "models" => now + d <= startedAt[r] + MODELS_TIMEOUT_MS
    /\ Commit([Cur EXCEPT !.now = now + d])
    /\ UNCHANGED <<nextReq, httpClosed, fired, firstFrame, nFrames>>

\* a request to /v1/*: the router runs authMiddleware, then the route's controller
ApiRequest(authHeader, kind, stream) ==
    /\ nextReq < MaxReqs
    /\ nextReq' = nextReq + 1
    /\ LET r  == nextReq + 1
           s1 == authMiddleware([Cur EXCEPT !.authorization[r] = authHeader], r, authHeader)
       IN  Commit(IF ~s1.ret THEN s1
                  ELSE IF kind = "models" THEN listModelsHandler(s1, r)
                  ELSE IF kind = "embeddings" THEN embeddingsHandler(s1, r)
                  ELSE completionsRoute(s1, r, stream, TRUE))
    /\ UNCHANGED <<httpClosed, fired, firstFrame, nFrames>>

\* the Edge's variables, which a step of the Worker leaves alone
edgeVars == <<readyState, isAuthenticated, isAlive, clientId, closeCode, closedBy,
              clients, wsOut, nextReq, req, httpClosed, pendingRequests, timer, res,
              chunksIn, endIn, outcomes, fired, firstFrame, nFrames, authorization,
              startedAt, modelsCache, modelsCacheExpiry, now, filledAt, routed, errIn, lateIn,
              pings>>

\* the frames the Edge sends to a registered Worker: a request (each id once),
\* the cancellation of a request, an error
ToWorker ==
    { RequestFrame(t, r, st) :
        t \in {"chat_request", "completion_request", "embeddings_request",
                "models_request"},
        r \in ReqIds, st \in BOOLEAN }
    \cup { RequestFrame("cancel_request", r, FALSE) : r \in ReqIds }
    \cup { Out("error", FALSE, "Unknown message type: x", "", 0, FALSE) }

\* ws 'message' at the Worker
WorkerMessage(f) ==
    /\ worker.wsOpen
    /\ f.type \in {"chat_request", "completion_request", "embeddings_request",
                   "models_request"}
          => worker.upstream[f.requestId] = "none"
    /\ f.type = "cancel_request" => worker.upstream[f.requestId] # "none"
    /\ LET w == proxyHandleMessage(worker, f)
       IN  worker' = IF f.type = "cancel_request" /\ Serving(worker, f.requestId)
                     THEN [w EXCEPT !.cancelled = @ \cup {f.requestId}]
                     ELSE IF f.requestId \in ReqIds /\ f.type # "cancel_request"
                     THEN [w EXCEPT !.conn[f.requestId] = worker.dials]
                     ELSE w
    /\ UNCHANGED edgeVars

\* LM Studio answers a unary call, or the call fails
MakeRequestSettles(r, ok) ==
    /\ worker.upstream[r] = "unary"
    /\ worker' = makeRequestSettled(worker, r, ok)
    /\ UNCHANGED edgeVars

\* LM Studio starts a stream, or the call fails
StreamSettles(r, ok) ==
    /\ worker.upstream[r] = "opening"
    /\ worker' = streamSettled(worker, r, ok)
    /\ UNCHANGED edgeVars

StreamData(r) ==
    /\ worker.upstream[r] = "stream"
    /\ Len(worker.sent) < MaxSent
    /\ worker' = streamOnData(worker, r)
    /\ UNCHANGED edgeVars

StreamEnd(r) ==
    /\ worker.upstream[r] \in {"stream", "draining"}
    /\ worker' = streamOnEnd(worker, r)
    /\ UNCHANGED edgeVars

StreamError(r) ==
    /\ worker.upstream[r] = "stream"
    /\ worker' = upstreamOnError(worker, r)
    /\ UNCHANGED edgeVars

\* the Worker's socket closes
WorkerWsClose ==
    /\ worker.wsOpen
    /\ worker' = handleClose(worker)
    /\ UNCHANGED edgeVars

\* the dial fails: ws emits 'error', which is logged, and 'close'
DialFails ==
    /\ worker.connecting
    /\ worker' = handleClose(worker)
    /\ UNCHANGED edgeVars

\* the dial succeeds: ws emits 'open'
DialSucceeds ==
    /\ worker.connecting
    /\ worker' = handleOpen(worker)
    /\ UNCHANGED edgeVars

\* the timer of handleReconnection fires
ReconnectFires ==
    /\ worker.reconnectTimer
    /\ worker.dials < MaxDials
    /\ worker' = proxyConnect(worker)
    /\ UNCHANGED edgeVars

\* handleShutdown: the process got SIGINT or SIGTERM and calls disconnect()
Disconnect ==
    /\ ~worker.shutdown
    /\ worker' = disconnect(worker)
    /\ UNCHANGED edgeVars

\* the 'close' event of the socket disconnect() closed
WorkerCloseEvent ==
    /\ worker.closing
    /\ worker' = handleClose([worker EXCEPT !.closing = FALSE])
    /\ UNCHANGED edgeVars

\* the Worker's ping interval fires
WorkerPing ==
    /\ worker.wsOpen
    /\ Len(worker.sent) < MaxSent
    /\ worker' = ProxySend(worker, "ping", 0)
    /\ UNCHANGED edgeVars

\* ------------------------------------------------------- specifications
\* The request path: Workers register, the Edge dispatches HTTP requests to them,
\* and their frames, the deadline timers, client disconnects and socket closes
\* interleave freely.
Next ==
    \/ \E c \in 1..MaxWorkers : Connect(c)
    \/ \E c \in Conns : \E f \in EdgeFrames : Message(c, f)
    \/ \E c \in Conns : PeerClose(c)
    \/ \E c \in Conns : Close(c)
    \/ \E kind \in {"completion", "embeddings"} : \E stream \in BOOLEAN :
          (kind = "embeddings" => ~stream) /\ HttpRequest(kind, stream)
    \/ \E r \in ReqIds : Timeout(r)
    \/ \E r \in ReqIds : HttpClose(r)

Spec == Init /\ [][Next]_vars

\* The auth gate and the registry: connections arrive, send any frames at the
\* gate and close.  No HTTP request is made.
NextGate ==
    \/ \E c \in Conns : Connect(c)
    \/ \E c \in Conns : \E f \in GateFrames : Message(c, f)
    \/ \E c \in Conns : PeerClose(c)
    \/ \E c \in Conns : Close(c)

SpecGate == Init /\ [][NextGate]_vars

\* The liveness supervisor: Workers register, the ping interval sweeps the
\* sockets, pongs arrive or not, sockets close.
NextLive ==
    \/ \E c \in Conns : Connect(c)
    \/ \E c \in Conns : \E cid \in ClientIds : Message(c, GoodAuth(cid))
    \/ \E c \in Conns : Pong(c)
    \/ \E c \in Conns : PeerClose(c)
    \/ \E c \in Conns : Close(c)
    \/ Sweep

SpecLive == Init /\ [][NextLive]_vars

\* The HTTP front: requests with any Authorization header to every endpoint,
\* while Workers register and leave.
NextHttp ==
    \/ \E c \in 1..MaxWorkers : Connect(c)
    \/ \E c \in Conns : Message(c, GoodAuth("w1"))
    \/ \E c \in Conns : PeerClose(c)
    \/ \E c \in Conns : Close(c)
    \/ \E h \in Headers : \E kind \in {"completion", "embeddings", "models"} :
          \E stream \in BOOLEAN :
             (stream => kind = "completion") /\ ApiRequest(h, kind, stream)

SpecHttp == Init /\ [][NextHttp]_vars

\* Unary requests under a clock: models requests with their cache and deadline,
\* unary completions and embeddings, and the Worker's answers.
NextUnary ==
    \/ \E c \in 1..MaxWorkers : Connect(c)
    \/ \E c \in Conns :
          \E f \in {GoodAuth("w1")} \cup UNION { UnaryFrames(r) : r \in 1..nextReq } :
             Message(c, f)
    \/ \E c \in Conns : PeerClose(c)
    \/ \E c \in Conns : Close(c)
    \/ ModelsRequest
    \/ \E kind \in {"completion", "embeddings"} : HttpRequest(kind, FALSE)
    \/ \E r \in ReqIds : ModelsTimeout(r)
    \/ \E r \in ReqIds : req[r].kind # "models" /\ Timeout(r)
    \/ \E d \in TimeSteps : Advance(d)

SpecUnary == Init /\ [][NextUnary]_vars

\* A Worker: frames from the Edge, and the events of its calls to LM Studio.
NextWorker ==
    \/ \E f \in ToWorker : WorkerMessage(f)
    \/ \E r \in ReqIds : \E ok \in BOOLEAN : MakeRequestSettles(r, ok)
    \/ \E r \in ReqIds : \E ok \in BOOLEAN : StreamSettles(r, ok)
    \/ \E r \in ReqIds : StreamData(r)
    \/ \E r \in ReqIds : StreamEnd(r)
    \/ \E r \in ReqIds : StreamError(r)
    \/ WorkerWsClose

SpecWorker == Init /\ [][NextWorker]_vars

\* The dispatch of frames by type: Workers register under one clientId, requests
\* are dispatched, and frames of every spelling arrive.
NextTags ==
    \/ \E c \in Conns : Connect(c)
    \/ \E c \in Conns : Message(c, GoodAuth("w1"))
    \/ \E c \in Conns : \E r \in 0..nextReq : \E f \in TagFrames(r) : Message(c, f)
    \/ \E c \in Conns : PeerClose(c)
    \/ \E c \in Conns : Close(c)
    \/ \E stream \in BOOLEAN : HttpRequest("completion", stream)

SpecTags == Init /\ [][NextTags]_vars

\* The completions route under both settings of the streaming switch.
NextRoute ==
    \/ \E c \in 1..MaxWorkers : Connect(c)
    \/ \E c \in Conns : \E f \in EdgeFrames : Message(c, f)
    \/ \E c \in Conns : PeerClose(c)
    \/ \E c \in Conns : Close(c)
    \/ \E stream, enableStreaming \in BOOLEAN : CompletionsPost(stream, enableStreaming)
    \/ \E r \in ReqIds : Timeout(r)

SpecRoute == Init /\ [][NextRoute]_vars

\* Worker selection: several Workers register under their ids and leave, and
\* completion requests of both modes are dispatched.
NextPick ==
    \/ \E c \in Conns : Connect(c)
    \/ \E c \in Conns : \E cid \in ClientIds : Message(c, GoodAuth(cid))
    \/ \E c \in Conns : PeerClose(c)
    \/ \E c \in Conns : Close(c)
    \/ \E stream \in BOOLEAN : HttpRequest("completion", stream)

SpecPick == Init /\ [][NextPick]_vars

\* Deadlines: completions of both modes and models requests are dispatched (an
\* embeddings request runs the unary handler of a completion), the Worker answers with any
\* frame or not at all, its socket may close, and no HTTP client disconnects.
\* The clock is not advanced: a deadline passes when its timer fires.
NextDeadline ==
    \/ \E c \in 1..MaxWorkers : Connect(c)
    \/ \E c \in Conns :
          \E f \in EdgeFrames \cup UNION { UnaryFrames(r) : r \in 1..nextReq } :
             Message(c, f)
    \/ \E c \in Conns : PeerClose(c)
    \/ \E c \in Conns : Close(c)
    \/ \E stream \in BOOLEAN : HttpRequest("completion", stream)
    \/ ModelsRequest
    \/ \E r \in ReqIds : Timeout(r)

SpecDeadline == Init /\ [][NextDeadline]_vars

\* A timer that is armed fires unless it is cleared first.
SpecDeadlineFair == SpecDeadline /\ \A r \in ReqIds : WF_vars(Timeout(r))

\* Several Workers and the answers they send: Workers register under their ids,
\* completion requests are dispatched, and any registered Worker sends frames
\* about any request.  No socket closes.
NextCross ==
    \/ \E c \in Conns : Connect(c)
    \/ \E c \in Conns : \E cid \in ClientIds : Message(c, GoodAuth(cid))
    \/ \E c \in Conns : \E r \in 1..nextReq : \E f \in ReqFrames(r) : Message(c, f)
    \/ \E stream \in BOOLEAN : HttpRequest("completion", stream)
    \/ \E r \in ReqIds : Timeout(r)

SpecCross == Init /\ [][NextCross]_vars

\* A Worker and its connection: the connection closes, dials fail or succeed,
\* the reconnect timer fires, while calls made for earlier requests settle.
NextReconnect ==
    \/ \E r \in ReqIds : \E st \in BOOLEAN :
          WorkerMessage(RequestFrame("completion_request", r, st))
    \/ \E r \in ReqIds : \E ok \in BOOLEAN : MakeRequestSettles(r, ok)
    \/ \E r \in ReqIds : StreamSettles(r, TRUE)
    \/ \E r \in ReqIds : StreamData(r)
    \/ \E r \in ReqIds : StreamEnd(r)
    \/ WorkerPing
    \/ WorkerWsClose
    \/ DialFails
    \/ DialSucceeds
    \/ ReconnectFires

SpecReconnect == Init /\ [][NextReconnect]_vars

\* A timer that is armed fires: the reconnect timer is not left waiting for ever.
SpecReconnectFair == SpecReconnect /\ WF_vars(ReconnectFires)

\* A Worker that is shut down: as SpecReconnect, and disconnect() is called once
\* at any moment.
NextShutdown ==
    \/ \E r \in ReqIds : WorkerMessage(RequestFrame("completion_request", r, FALSE))
    \/ \E r \in ReqIds : \E ok \in BOOLEAN : MakeRequestSettles(r, ok)
    \/ WorkerPing
    \/ WorkerWsClose
    \/ DialFails
    \/ DialSucceeds
    \/ ReconnectFires
    \/ Disconnect
    \/ WorkerCloseEvent

SpecShutdown == Init /\ [][NextShutdown]_vars

\* ------------------------------------------------------------- claims
Range(seq) == { seq[i] : i \in 1..Len(seq) }

\* C1: a request that was registered in a pending table gets at most one terminal
\* outcome (a resolve, a failure or timeout, a stream end, a cancellation), whatever
\* the order of the Worker's frames, the deadline and the client's disconnect.
C1_UniqueOutcome ==
    \A r \in ReqIds : req[r].client # 0 => Len(outcomes[r]) <= 1

\* a stream that ended with [DONE], after which its client disconnected
C1_Witness ==
    \E r \in ReqIds : outcomes[r] = <<"done">> /\ r \in httpClosed

\* C2: no pending entry belongs to a Worker whose transport has closed (the close
\* handler is to fail the Worker's entries in the same step).
C2_NoOrphanEntries ==
    \A r \in pendingRequests : readyState[req[r].client] # "CLOSED"

\* the events of a response that carry a chunk: all but the markers that end it
Markers == {SSE_DONE, SSE_TIMEOUT, SseEvent(Stringify("ERR:boom")),
            SseEvent(Stringify("ERR:Unknown error"))}
ChunkEvents(sse) == SelectSeq(sse, LAMBDA e : e \notin Markers)

\* C3: the chunk events written to a streaming response are the stream_chunk
\* frames received for it while it was pending: as many, in the same order, each
\* carrying the frame's data.
C3_OrderPreserved ==
    \A r \in ReqIds :
        req[r].mode = "stream" =>
            ChunkEvents(res[r].sse) =
                [i \in 1..Len(chunksIn[r]) |-> SseEvent(Stringify(chunksIn[r][i]))]

\* two different chunks were received and written
C3_Witness ==
    \E r \in ReqIds : chunksIn[r] = <<"B", "A">> /\ Len(res[r].sse) = 2

\* C4: [DONE] is written to a streaming response iff stream_end arrived while the
\* entry was pending, and that stream_end ends the response, cancels the timer and
\* removes the entry.
C4_DoneIffStreamEnd ==
    \A r \in ReqIds :
        req[r].mode = "stream" =>
            /\ (SSE_DONE \in Range(res[r].sse)) <=> (r \in endIn)
            /\ r \in endIn => /\ res[r].ended
                              /\ r \notin timer
                              /\ r \notin pendingRequests

\* C5: once the deadline of a dispatched unary request has fired, its client has
\* got 504 "Request timeout" and the pending table holds no entry for it.
C5_DeadlineGives504 ==
    \A r \in fired :
        req[r].mode = "unary" =>
            /\ res[r].status = HTTP_TIMEOUT
            /\ res[r].body = "Request timeout"
            /\ r \notin pendingRequests

\* a unary request whose Worker stayed silent until the deadline
C5_Witness ==
    \E r \in fired : req[r].mode = "unary" /\ res[r].status = HTTP_TIMEOUT

\* the records of the registry that carry clientId cid
Records(m, cid) == { i \in 1..Len(m) : m[i].id = cid }

\* connection w2, not yet registered, presents clientId cid while the registry
\* holds a record for cid: handleClientAuthentication calls add(cid, w2)
AddOver(cid, w2) ==
    /\ MapHas(clients, cid)
    /\ ~isAuthenticated[w2]
    /\ Message(w2, GoodAuth(cid))

\* C6 (as amended): add(c, w2) while a record (c, w1) exists closes w1 with code
\* 1000 if w1 is still OPEN, and in every case leaves exactly one record for c,
\* which refers to w2.
C6_Replacement ==
    [][\A cid \in ClientIds : \A w2 \in Conns :
         AddOver(cid, w2) =>
            LET w1 == MapGet(clients, cid)
            IN  /\ readyState[w1] = "OPEN" =>
                      readyState'[w1] = "CLOSING" /\ closeCode'[w1] = CLOSE_REPLACED
                /\ Cardinality(Records(clients', cid)) = 1
                /\ MapGet(clients', cid) = w2]_vars

\* C6 (as stated): add(c, w2) while a record (c, w1) exists closes w1 with code 1000
\* and leaves exactly one record for c, which refers to w2.
C6_AsStated ==
    [][\A cid \in ClientIds : \A w2 \in Conns :
         AddOver(cid, w2) =>
            LET w1 == MapGet(clients, cid)
            IN  /\ readyState'[w1] = "CLOSING" /\ closeCode'[w1] = CLOSE_REPLACED
                /\ Cardinality(Records(clients', cid)) = 1
                /\ MapGet(clients', cid) = w2]_vars

\* a second connection took over the clientId of an OPEN first one
C6_Witness ==
    \E w1, w2 \in Conns :
        /\ w1 # w2
        /\ firstFrame[w1] = GoodAuth("w1") /\ firstFrame[w2] = GoodAuth("w1")
        /\ closeCode[w1] = CLOSE_REPLACED
        /\ MapHas(clients, "w1") /\ MapGet(clients, "w1") = w2

\* a frame that passes the auth gate
IsValidAuth(f) == f.parsable /\ f.type = "auth" /\ f.apiKey = ApiKey /\ f.clientId # ""

\* C7: a connection whose first frame was not a valid auth frame is being closed
\* or is closed, never becomes authenticated (so none of its frames reaches the
\* authenticated message handler) and is never in the registry.
C7_BadFirstFrameShutOut ==
    \A c \in Conns :
        firstFrame[c] # NoFrame /\ ~IsValidAuth(firstFrame[c]) =>
            /\ readyState[c] \in {"CLOSING", "CLOSED"}
            /\ ~isAuthenticated[c]
            /\ \A i \in 1..Len(clients) : clients[i].ws # c

\* C8: the authenticated flag of a connection never goes from true to false.
C8_AuthMonotone ==
    [][\A c \in Conns : isAuthenticated[c] => isAuthenticated'[c]]_vars

\* an authenticated connection that went on to send an auth frame, which the
\* message handler refused as an unknown type, and is still authenticated
C8_Witness ==
    \E c \in Conns :
        /\ isAuthenticated[c]
        /\ Len(wsOut[c]) >= 2
        /\ wsOut[c][2] = ErrorFrame("Unknown message type: auth")

C10_AuthAccepted ==
    [][\A c \in Conns : \A f \in AuthFrames :
         firstFrame[c] = NoFrame /\ IsValidAuth(f) /\ Message(c, f) =>
            /\ MapHas(clients', f.clientId) /\ MapGet(clients', f.clientId) = c
            /\ isAuthenticated'[c]
            /\ wsOut'[c] = Append(wsOut[c],
                                  [type |-> "auth_result", success |-> TRUE,
                                   error |-> "", token |-> Sign(f.clientId),
                                   requestId |-> 0, stream |-> FALSE])
            /\ Sign(f.clientId) # ""]_vars

\* a Worker registered as w2 with its first frame
C10_Witness ==
    \E c \in Conns :
        /\ firstFrame[c] = GoodAuth("w2")
        /\ MapHas(clients, "w2") /\ MapGet(clients, "w2") = c
        /\ isAuthenticated[c]
        /\ wsOut[c] = <<AuthSucceeded(Sign("w2"))>>

\* the credentials the HTTP side is to accept: Bearer with a valid token of the
\* Edge or with the configured API key
ShouldAccept(h) ==
    /\ Len(h) = 2 /\ h[1] = "Bearer"
    /\ JwtVerify(h[2]) \/ h[2] = ApiKey

\* C11: a request to /v1/* is rejected with 401 exactly when its Authorization
\* header is not Bearer with a valid unexpired token of the Edge or with the
\* configured API key.
C11_HttpAuth ==
    \A r \in 1..nextReq :
        (res[r].status # HTTP_UNAUTHORIZED) <=> ShouldAccept(authorization[r])

\* the registry holds no Worker that is OPEN and authenticated
NoWorkerAvailable ==
    \A i \in 1..Len(clients) :
        ~(readyState[clients[i].ws] = "OPEN" /\ isAuthenticated[clients[i].ws])

\* C12: with no Worker that is OPEN and authenticated, an authorized POST to
\* /v1/completions or /v1/embeddings, streaming or not, is answered 503 "No
\* available LM Studio clients", and creates no entry, starts no timer and sends
\* no frame.
C12_NoWorker503 ==
    [][\A h \in Headers : \A kind \in {"completion", "embeddings"} : \A stream \in BOOLEAN :
         /\ NoWorkerAvailable
         /\ ApiRequest(h, kind, stream)
         /\ res'[nextReq'].status # HTTP_UNAUTHORIZED
         => /\ res'[nextReq'].status = HTTP_NO_WORKER
            /\ res'[nextReq'].body = "No available LM Studio clients"
            /\ pendingRequests' = pendingRequests
            /\ timer' = timer
            /\ wsOut' = wsOut]_vars

\* a streaming request refused while the registry still holds a Worker, whose
\* socket is closing
C12_Witness ==
    \E r \in ReqIds :
        /\ res[r].status = HTTP_NO_WORKER
        /\ req[r].mode = "stream"
        /\ clients # <<>>
        /\ pendingRequests = {}

\* the models cache holds a fresh entry
CacheFresh == modelsCache # "" /\ modelsCacheExpiry > now

\* C13: GET /v1/models with no fresh cache entry and no available Worker is answered
\* with status 503 and the default body, sends no frame and creates no entry.
C13_ModelsNoWorker503 ==
    [][ModelsRequest /\ ~CacheFresh /\ NoWorkerAvailable
         => /\ res'[nextReq'].status = HTTP_NO_WORKER
            /\ res'[nextReq'].body = NoClientsBody
            /\ wsOut' = wsOut
            /\ pendingRequests' = pendingRequests]_vars

\* the response type that answers a request of kind k
ResponseType(k) == k \o "_response"

\* C14: when the response frame of its kind, carrying a payload, arrives for a
\* pending unary request before the deadline, the client gets 200 with that
\* payload as body, the timer is cancelled and the entry removed.
C14_UnaryResponse ==
    [][\A c \in Conns : \A r \in ReqIds : \A f \in UnaryFrames(r) :
         /\ isAuthenticated[c]
         /\ r \in pendingRequests /\ r \in timer
         /\ f.type = ResponseType(req[r].kind) /\ f.error = ""
         /\ Message(c, f)
         => /\ res'[r].status = HTTP_OK
            /\ res'[r].body = f.data
            /\ r \notin timer'
            /\ r \notin pendingRequests']_vars

\* a models request and a completion were both answered with their payloads
C14_Witness ==
    \E r, q \in ReqIds :
        /\ req[r].kind = "models" /\ req[r].client # 0
        /\ res[r].status = HTTP_OK /\ res[r].body = "M1"
        /\ req[q].kind = "completion"
        /\ res[q].status = HTTP_OK /\ res[q].body = "M2"
        /\ pendingRequests = {} /\ timer = {}

\* the models_request frames sent on connection c
ModelsRequests(out) == SelectSeq(out, LAMBDA o : o.type = "models_request")

\* C15: within 60 s after the models cache was filled no models_request frame is
\* sent, and every GET /v1/models in that time is answered with the cached payload.
C15_ModelsCacheTTL ==
    [][filledAt >= 0 /\ now - filledAt < CACHE_TTL_MS
         => /\ \A c \in Conns : ModelsRequests(wsOut'[c]) = ModelsRequests(wsOut[c])
            /\ ModelsRequest => /\ res'[nextReq'].status = HTTP_OK
                                /\ res'[nextReq'].body = modelsCache]_vars

\* the frame that tells a Worker to stop serving request r
CancelFrame(r) == Out("cancel_request", FALSE, "", "", r, FALSE)

\* the HTTP client of request r goes away in this step, its entry still pending
Disconnects(r) ==
    /\ r \notin httpClosed
    /\ httpClosed' = httpClosed \cup {r}
    /\ r \in pendingRequests

\* C16: when the HTTP client of a pending streaming request disconnects and the
\* connection of the Worker it was dispatched to is still open, that step
\* transmits cancel_request with the request's id on that connection, disarms
\* the deadline timer and removes the entry; when the connection is no longer
\* open the timer and the entry go all the same.
C16_ClientDisconnect ==
    [][\A r \in ReqIds :
         Disconnects(r) =>
           /\ r \notin timer'
           /\ r \notin pendingRequests'
           /\ readyState[req[r].client] = "OPEN" =>
                wsOut'[req[r].client] = Append(wsOut[req[r].client], CancelFrame(r))
      ]_vars

\* C16 as stated: the cancel_request is sent on every such disconnect.
C16_AsStated ==
    [][\A r \in ReqIds :
         Disconnects(r) =>
           /\ r \notin timer'
           /\ r \notin pendingRequests'
           /\ wsOut'[req[r].client] = Append(wsOut[req[r].client], CancelFrame(r))
      ]_vars

\* C16 witness: a streaming request that had received a chunk was cancelled by
\* its client's disconnect, and the Worker's connection carries the cancel frame.
C16_Witness ==
    \E r \in ReqIds :
        /\ r \in httpClosed
        /\ outcomes[r] = <<"cancel">>
        /\ chunksIn[r] # <<>>
        /\ r \notin pendingRequests /\ r \notin timer
        /\ wsOut[req[r].client] # <<>>
        /\ wsOut[req[r].client][Len(wsOut[req[r].client])] = CancelFrame(r)

\* C17: once cancel_request arrived for a request whose call to LM Studio was
\* open, the Worker has no call open for that request and has sent no frame
\* (stream_chunk, stream_end, response, error) carrying its requestId since.
C17_CancelStopsWorker ==
    /\ \A r \in worker.cancelled : ~Serving(worker, r)
    /\ worker.sentAfterCancel = <<>>

\* the SSE event that reports an error to the HTTP client
IsErrorEvent(chunk) == chunk \in {SseEvent("[ERROR] obj"), SseEvent("[ERROR] boom")}

\* C18: an error or error_response frame that carried the requestId of a pending
\* streaming request has made the Edge write an SSE `data: [ERROR] <msg>` event,
\* close the HTTP response and remove the entry.
C18_StreamError ==
    \A e \in errIn :
        req[e[2]].mode = "stream" =>
            /\ \E i \in 1..Len(res[e[2]].sse) : IsErrorEvent(res[e[2]].sse[i])
            /\ res[e[2]].ended
            /\ e[2] \notin pendingRequests

\* C19: an error_response frame that carried the requestId of a dispatched unary
\* request has delivered a failure to the HTTP request and removed its entry.
C19_UnaryErrorResponse ==
    \A e \in errIn :
        (e[1] = "error_response" /\ req[e[2]].mode = "unary") =>
            /\ outcomes[e[2]] # <<>>
            /\ res[e[2]].status \notin {0, HTTP_OK}
            /\ e[2] \notin pendingRequests

\* C20: a connection the liveness sweep terminated had left two consecutive pings
\* unanswered; one that has missed a single ping is not terminated.
C20_TwoMissedPings ==
    \A c \in Conns : closedBy[c] = "terminate" => pings[c] >= 2

PongFrame == Out("pong", FALSE, "", "", 0, FALSE)

\* the frames whose type is the ping tag, in either spelling
PingFrames == { Frame(TRUE, t, "", "", 0, "A", "", FALSE) : t \in {"ping", " PING "} }

\* C21: a ping frame that arrives on an authenticated connection that is still
\* open is answered with exactly one pong frame on that connection, and no other
\* connection's output, the registry, the pending entries, their timers and the
\* HTTP responses change.
C21_PingPong ==
    [][\A c \in Conns : \A f \in PingFrames :
         (isAuthenticated[c] /\ readyState[c] = "OPEN" /\ Message(c, f)) =>
            /\ wsOut' = [wsOut EXCEPT ![c] = Append(@, PongFrame)]
            /\ UNCHANGED <<clients, pendingRequests, timer, res>>
      ]_vars

\* C21 as stated: every ping frame of an authenticated connection is answered.
C21_AsStated ==
    [][\A c \in Conns : \A f \in PingFrames :
         (isAuthenticated[c] /\ Message(c, f)) =>
            /\ wsOut' = [wsOut EXCEPT ![c] = Append(@, PongFrame)]
            /\ UNCHANGED <<clients, pendingRequests, timer, res>>
      ]_vars

\* C21 witness: a registered Worker with a request pending got a pong.
C21_Witness ==
    \E c \in Conns :
        /\ isAuthenticated[c] /\ readyState[c] = "OPEN"
        /\ pendingRequests # {}
        /\ wsOut[c] # <<>>
        /\ wsOut[c][Len(wsOut[c])] = PongFrame

\* the tags the Edge has a handler for
HandledTags ==
    {"ping", "chat_response", "completion_response", "embeddings_response",
     "models_response", "error_response", "stream_chunk", "stream_end"}

UnknownTypeFrame(type) == ErrorFrame("Unknown message type: " \o type)

\* C22: a frame received on an open authenticated connection is dispatched (no
\* "Unknown message type" error goes back) when its type, lowercased and trimmed,
\* is a tag the Edge handles; with any other type exactly one error frame
\* "Unknown message type: <type>" goes back to the sender and nothing else of the
\* Edge's state changes.
C22_TagDispatch ==
    [][\A c \in Conns : \A r \in 0..nextReq : \A f \in TagFrames(r) :
         (isAuthenticated[c] /\ readyState[c] = "OPEN" /\ Message(c, f)) =>
            IF ToLowerTrim(f.type) \in HandledTags
            THEN wsOut'[c] # Append(wsOut[c], UnknownTypeFrame(f.type))
            ELSE /\ wsOut' = [wsOut EXCEPT ![c] = Append(@, UnknownTypeFrame(f.type))]
                 /\ UNCHANGED <<readyState, isAuthenticated, clientId, clients,
                                pendingRequests, timer, res, outcomes, modelsCache>>
      ]_vars

\* request r asked for a stream while streaming was disabled
StreamDisabledFor(r) ==
    r \in 1..nextReq /\ routed[r].streamRequested /\ ~routed[r].streamingEnabled

\* C23: a completion request with stream: true that arrives while streaming is
\* disabled is handled as a unary request: its body's stream is false, no frame
\* about it sent to a Worker carries the stream flag, no SSE headers or events are
\* written, and what the client gets is one JSON response.
C23_StreamingDisabled ==
    \A r \in ReqIds :
        StreamDisabledFor(r) =>
            /\ ~routed[r].stream
            /\ req[r].mode = "unary"
            /\ \A c \in Conns : \A i \in 1..Len(wsOut[c]) :
                   wsOut[c][i].requestId = r => ~wsOut[c][i].stream
            /\ res[r].headers = "none"
            /\ res[r].sse = <<>>
            /\ Len(outcomes[r]) <= 1
            /\ r \in pendingRequests => res[r].status = 0

\* C23 witness: such a request was dispatched and answered with the Worker's JSON.
C23_Witness ==
    \E r \in ReqIds :
        /\ StreamDisabledFor(r)
        /\ res[r].status = HTTP_OK
        /\ res[r].body = "A"
        /\ \E c \in Conns : \E i \in 1..Len(wsOut[c]) :
               wsOut[c][i] = RequestFrame("completion_request", r, FALSE)

\* the Worker has no connection and no dial under way, and may still re-dial
WorkerDown == ~worker.wsOpen /\ ~worker.connecting /\ worker.dials < MaxDials

\* C24: whenever the Worker's connection has closed or a dial has failed, a new
\* dial follows; and on every connection the first frame the Worker sends is the
\* auth frame.
C24_Reconnects ==
    /\ [](worker.onConn # <<>> => worker.onConn[1] = WorkerFrame("auth", 0))
    /\ (WorkerDown ~> worker.connecting)

\* C24 witness: after a failed dial and a second dial the Worker is connected
\* and has sent the auth frame and then the answer of a request received on the
\* connection before.
C24_Witness ==
    /\ worker.dials = 2
    /\ worker.wsOpen
    /\ Len(worker.onConn) >= 2
    /\ worker.onConn[1] = WorkerFrame("auth", 0)
    /\ worker.onConn[2].requestId # 0

\* the frames the Worker has sent for request r, in order
FramesFor(r) == SelectSeq(worker.sent, LAMBDA f : f.requestId = r)

\* the frame types that answer a unary request
UnaryAnswers ==
    {"chat_response", "completion_response", "embeddings_response",
     "models_response", "error_response"}

\* what the Worker owes for unary request r when its upstream call settles
UnaryAnswer(r, ok) ==
    WorkerFrame(IF ok THEN responseType(worker.type[r]) ELSE "error_response", r)

\* C26: a unary request gets at most one frame from the Worker, and when its
\* upstream call settles while the Worker's connection is open, that step sends
\* the one frame: k_response on success, error_response on failure, with the
\* request's id.
C26_UnaryOneFrame ==
    /\ [](\A r \in ReqIds :
            (\E i \in 1..Len(FramesFor(r)) : FramesFor(r)[i].type \in UnaryAnswers)
                => Len(FramesFor(r)) = 1)
    /\ [][\A r \in ReqIds : \A ok \in BOOLEAN :
            (worker.wsOpen /\ MakeRequestSettles(r, ok)) =>
                worker'.sent = Append(worker.sent, UnaryAnswer(r, ok))]_vars

\* C26 as stated: every unary request received while connected is answered.
C26_AsStated ==
    [][\A r \in ReqIds : \A ok \in BOOLEAN :
         MakeRequestSettles(r, ok) =>
             worker'.sent = Append(worker.sent, UnaryAnswer(r, ok))]_vars

\* C26 witness: one request was answered with its response and another, of
\* another kind, with error_response.
C26_Witness ==
    /\ worker.type[1] = "chat_request" /\ worker.type[2] = "models_request"
    /\ FramesFor(1) = <<WorkerFrame("chat_response", 1)>>
    /\ FramesFor(2) = <<WorkerFrame("error_response", 2)>>

\* the frames that end a stream
IsTerminal(f) == f.type \in {"stream_end", "error"}

\* C27: the frames the Worker has sent for a request hold at most one terminal
\* frame (stream_end or error), and it is the last of them.
C27_ChunksThenOneTerminal ==
    \A r \in ReqIds :
        \A i \in 1..Len(FramesFor(r)) :
            IsTerminal(FramesFor(r)[i]) => i = Len(FramesFor(r))

\* the sockets in wss.clients
Transports == { c \in Conns : readyState[c] \in {"OPEN", "CLOSING"} }

\* C25: a sweep terminates each transport whose flag is false, and clears the
\* flag of every other and pings it; a pong sets the flag.  So a transport the
\* sweep terminated had a ping unanswered, and an open transport with a ping
\* unanswered is terminated by the next sweep.
C25_Sweep ==
    /\ [][Sweep => \A c \in Transports :
            IF ~isAlive[c]
            THEN /\ readyState'[c] = "CLOSING"
                 /\ readyState[c] = "OPEN" => closedBy'[c] = "terminate"
                 /\ pings'[c] = pings[c]
            ELSE /\ ~isAlive'[c]
                 /\ readyState'[c] = readyState[c]
                 /\ readyState[c] = "OPEN" => pings'[c] = pings[c] + 1]_vars
    /\ [][\A c \in Conns : Pong(c) => isAlive'[c] /\ readyState'[c] = "OPEN"]_vars
    /\ [](\A c \in Conns : closedBy[c] = "terminate" => pings[c] >= 1)
    /\ [][Sweep => \A c \in Conns :
            (readyState[c] = "OPEN" /\ pings[c] >= 1) => closedBy'[c] = "terminate"]_vars

\* C25 witness: one sweep has terminated the first connection, which left its
\* ping unanswered, and pinged the second, which is open with its flag cleared.
C25_Witness ==
    /\ closedBy[1] = "terminate" /\ pings[1] = 1
    /\ readyState[2] = "OPEN" /\ ~isAlive[2] /\ pings[2] = 1

\* the answer frames about request r, in every type and payload the peers send
AnswerFrames(r) == { f \in ReqFrames(r) \cup UnaryFrames(r) : f.type \in AnswerTypes }

\* C28: a response, stream_chunk or stream_end frame whose requestId has no
\* pending entry leaves every HTTP response, the pending entries, the timers, the
\* outcomes and the models cache as they were.
C28_LateFrameDiscarded ==
    [][\A c \in Conns : \A r \in ReqIds : \A f \in AnswerFrames(r) :
         (r \notin pendingRequests /\ Message(c, f)) =>
             UNCHANGED <<res, pendingRequests, timer, outcomes, req,
                         modelsCache, modelsCacheExpiry>>]_vars

\* C28 witness: the deadline of the first request has passed and an answer to it
\* has arrived since, and an answer has arrived to the second request, which was
\* refused or answered before.
C28_Witness ==
    /\ lateIn = {1, 2}
    /\ 1 \in fired
    /\ 2 \notin fired

\* the registry's i-th entry is a Worker that can take a request
Qualifies(i) ==
    /\ readyState[clients[i].ws] = "OPEN"
    /\ isAuthenticated[clients[i].ws]

\* C29: the Worker a request is dispatched to is the first entry of the registry,
\* in its order, whose socket is OPEN and authenticated; the request finds none
\* exactly when no entry qualifies; and the registry is left as it was.
C29_PickAvailable ==
    [][nextReq' = nextReq + 1 =>
         LET picked == req'[nextReq'].client
         IN  /\ picked = 0 <=> ~\E i \in 1..Len(clients) : Qualifies(i)
             /\ picked # 0 =>
                  \E i \in 1..Len(clients) :
                     /\ clients[i].ws = picked
                     /\ Qualifies(i)
                     /\ \A j \in 1..(i - 1) : ~Qualifies(j)
             /\ clients' = clients]_vars

\* C29 witness: with two Workers registered, the first request went to the first
\* entry and the second, the first entry's socket no longer open, to the second.
C29_Witness ==
    /\ Len(clients) = 2
    /\ readyState[clients[1].ws] = "CLOSING"
    /\ req[1].client = clients[1].ws
    /\ req[2].client = clients[2].ws

C31_RegistryTracksOpen ==
    \A c \in Conns :
        (readyState[c] = "OPEN" /\ isAuthenticated[c]) =>
            /\ MapHas(clients, clientId[c])
            /\ MapGet(clients, clientId[c]) = c

\* C32: an answer frame that carries the requestId of a pending entry and arrives
\* on another transport than the one the request was dispatched to leaves the
\* entry, its timer and the HTTP response as they were.
C32_AnswerOnlyFromItsWorker ==
    [][\A c \in Conns : \A r \in ReqIds : \A f \in AnswerFrames(r) :
         (r \in pendingRequests /\ req[r].client # c /\ isAuthenticated[c]
            /\ Message(c, f)) =>
             UNCHANGED <<res, pendingRequests, timer, outcomes>>]_vars

\* the models requests that wait for a Worker's answer, each with its own
\* models_request frame sent
ModelsPending == { r \in pendingRequests : req[r].kind = "models" }

\* C33: models requests that arrive while the cache is empty or expired share one
\* fill: at no time do two of them wait for a models_request frame of their own.
C33_ModelsSingleFill ==
    \A r, q \in ModelsPending : r = q

\* the kind of request a unary response frame answers
KindOf(type) ==
    CASE type = "completion_response" -> "completion"
      [] type = "embeddings_response" -> "embeddings"
      [] type = "models_response"     -> "models"
      [] OTHER -> "none"

\* C34: a unary response frame of kind k that carries the requestId of an entry
\* registered for another kind leaves the entry pending, its timer armed and the
\* HTTP request unanswered.
C34_ResponseOfItsKind ==
    [][\A c \in Conns : \A r \in ReqIds : \A f \in UnaryFrames(r) :
         (r \in pendingRequests /\ isAuthenticated[c]
            /\ KindOf(f.type) # req[r].kind /\ Message(c, f)) =>
             /\ r \in pendingRequests' /\ r \in timer'
             /\ res'[r] = res[r] /\ outcomes'[r] = outcomes[r]]_vars

\* C34 witness: the one frame the Worker sent after its auth was a response of a
\* kind other than embeddings carrying the id of the pending embeddings request,
\* which is pending still.
C34_Witness ==
    /\ nextReq = 1 /\ nFrames = 2
    /\ req[1].kind = "embeddings"
    /\ 1 \in pendingRequests /\ 1 \in timer
    /\ Len(wsOut[1]) = 2
    /\ res[1] = NoRes

\* C35: once disconnect() has been called the Worker has no reconnect timer armed
\* and no dial under way.
C35_NoReconnectAfterDisconnect ==
    worker.shutdown => ~worker.reconnectTimer /\ ~worker.connecting

\* C36: the Worker writes a frame only to an open socket, one frame per event;
\* the open of a new connection writes the auth frame and nothing that was
\* produced before; and a request whose call is over gets no further frame, so a
\* frame dropped while disconnected is never sent later.
C36_SendOnlyWhenOpen ==
    [][/\ worker'.sent # worker.sent =>
            /\ worker'.wsOpen
            /\ \E f \in Range(worker'.sent) : worker'.sent = Append(worker.sent, f)
       /\ DialSucceeds => worker'.sent = Append(worker.sent, WorkerFrame("auth", 0))
       /\ \A r \in ReqIds :
            worker.upstream[r] = "over" =>
                SelectSeq(worker'.sent, LAMBDA f : f.requestId = r) = FramesFor(r)]_vars

\* C36 witness: the answer of the first request was produced while the Worker was
\* disconnected and dropped; the Worker has reconnected since and has sent its
\* auth frame and no frame for that request.
C36_Witness ==
    /\ worker.type[1] # "" /\ worker.upstream[1] = "over"
    /\ FramesFor(1) = <<>>
    /\ worker.dials >= 1 /\ worker.wsOpen
    /\ worker.onConn # <<>>

\* C39: a frame the Worker sends for a request goes out on the connection on which
\* the request arrived.
C39_SameConnection ==
    [][\A r \in ReqIds :
         (\E f \in Range(worker'.sent) :
             f.requestId = r /\ worker'.sent = Append(worker.sent, f))
           => worker'.dials = worker.conn[r]]_vars

\* the cancel_request frames the Edge has transmitted for request r, over all connections
CancelsSent(r) ==
    UNION { { <<c, i>> : i \in { j \in 1..Len(wsOut[c]) : wsOut[c][j] = CancelFrame(r) } }
            : c \in Conns }

\* request r has had its stream finished, failed or timed out
Terminated(r) == \E i \in 1..Len(outcomes[r]) : outcomes[r][i] \in {"done", "fail", "timeout"}

\* C37: the Edge transmits at most one cancel_request for a request, and none in
\* or after the step in which the request's stream finished, failed or ran into
\* its deadline.
C37_CancelAtMostOnce ==
    /\ [](\A r \in ReqIds : Cardinality(CancelsSent(r)) <= 1)
    /\ [][\A r \in ReqIds : Terminated(r)' => CancelsSent(r)' = CancelsSent(r)]_vars

\* C37 witness: the first request's stream finished and its client then went away
\* with the Worker's connection open, and no cancel_request was sent for it; the
\* second request's client went away while it was pending and one was sent.
C37_Witness ==
    /\ outcomes[1] = <<"done">> /\ 1 \in httpClosed
    /\ readyState[req[1].client] = "OPEN"
    /\ CancelsSent(1) = {}
    /\ outcomes[2] = <<"cancel">> /\ Cardinality(CancelsSent(2)) = 1

\* the response of streaming request r is over: it was ended after [DONE] or after
\* the timeout's [ERROR] line, or the client has gone away
StreamOver(r) ==
    /\ req[r].mode = "stream" /\ req[r].client # 0
    /\ \/ res[r].ended /\ res[r].sse # <<>>
             /\ res[r].sse[Len(res[r].sse)] \in {SSE_DONE, SSE_TIMEOUT}
       \/ r \in httpClosed

\* C38: once a streaming response was ended after [DONE] or after the timeout's
\* [ERROR] line, or its client went away, no step writes to it or changes it, the
\* request has no entry and no timer, and so no frame and no timer event reaches it.
C38_NoWriteAfterEnd ==
    /\ [][\A r \in ReqIds : StreamOver(r) => res'[r] = res[r]]_vars
    /\ [](\A r \in ReqIds : StreamOver(r) => r \notin pendingRequests /\ r \notin timer)

\* C38 witness: the first response was ended with [DONE] and a frame for its
\* request arrived after that; the second response was ended by its deadline.
C38_Witness ==
    /\ res[1].ended /\ Len(res[1].sse) = 2 /\ res[1].sse[2] = SSE_DONE
    /\ 1 \in lateIn
    /\ res[2].ended /\ res[2].sse = <<SSE_TIMEOUT>>

=============================================================================
